---- MODULE Spec2Model ----
(***************************************************************************)
(* A model of the contour layout of protovis (src/layout/Contours.js):     *)
(* the Sequence Store (ContourBuilder.addSegment with its pointer-linked   *)
(* chains), the level/triangle scan of buildImplied and the boundary       *)
(* closing contourList.                                                    *)
(*                                                                         *)
(* Heap objects are modelled by index: chain nodes {p, prev, next} live in *)
(* the sequence `nodes', sequence records {head, tail, next, prev, closed} *)
(* in `chains'; 0 is null.  Records that the program drops stay in the     *)
(* heap with their stale fields, as garbage does.                          *)
(***************************************************************************)
EXTENDS Integers, Sequences, FiniteSets, TLC

VARIABLES
    nodes,      \* heap of chain nodes: Seq of [p, prev, next]
    chains,     \* heap of sequence records: Seq of [head, tail, next, prev, closed]
    contours,   \* buildImplied's `contours': level index -> ContourBuilder
    levels,     \* s.levels, the input list of level values
    i,          \* the level loop index of buildImplied (0-based)
    pc,         \* position in buildImplied: "loop", "tri" or "done"
    segs,       \* per level index, the segments passed to addSegment so far
    lines,      \* s.lines, the output of contourList
    grid,       \* s.grid, the sample positions
    probe,      \* the perimeter ordering applied to two chain heads
    net         \* a network layout, its scene and its node and link objects

vars == <<nodes, chains, contours, levels, i, pc, segs, lines, grid, probe, net>>

\* What the contour layout leaves alone.
others == <<probe, net>>

null == 0

(***************************************************************************)
(* Bounds and inputs.                                                      *)
(***************************************************************************)
\* addSegment calls in one run of the single-level specification
MaxSegs == 4
\* addSegment calls in one run of the two-level specification
MaxSegsLevels == 3

\* The s.grid of the contour specifications: the sample positions (the sample
\* values only reach the triangle source, which is outside the layout).
Grid == (0..2) \X (0..2)

\* pv.min / pv.max over a non-empty set of numbers
pv_min(S) == CHOOSE m \in S : \A x \in S : m <= x
pv_max(S) == CHOOSE m \in S : \A x \in S : m >= x

\* The bounding rectangle buildImplied computes from the grid.
minx == pv_min({p[1] : p \in grid})
maxx == pv_max({p[1] : p \in grid})
miny == pv_min({p[2] : p \in grid})
maxy == pv_max({p[2] : p \in grid})

\* The points the triangles' crossings report: one on the left edge, one on
\* the top edge, one interior point and the bottom-right corner.
Points == {<<0, 1>>, <<1, 2>>, <<1, 1>>, <<2, 0>>}

\* The level lists given to the layout: no level, one level, and two levels
\* that are not in numeric order.
NoLevels == {<< >>}
OneLevel == {<<5>>}
TwoLevels == {<<8, 2>>}

\* 1e-20 on the integer grid: for integers n, n < 1e-20 iff n < 1.
EPSILON == 1

(***************************************************************************)
(* Helpers of Contours.js                                                  *)
(***************************************************************************)
pointsEqual(a, b) ==
    LET x == a[1] - b[1]
        y == a[2] - b[2]
    IN  x * x + y * y < EPSILON

Range(q) == {q[j] : j \in 1..Len(q)}

\* new ContourBuilder(level)
ContourBuilder(level) == [level |-> level, s |-> null, count |-> 0]

\* The while loop of reverseList: swap prev/next of every node from pp on.
RECURSIVE reverseNodes(_, _)
reverseNodes(ns, pp) ==
    IF pp = null THEN ns
    ELSE LET temp == ns[pp].next
         IN  reverseNodes([ns EXCEPT ![pp].next = ns[pp].prev,
                                     ![pp].prev = temp], temp)

\* Mutant of reverseList: the head and tail pointers are not swapped.
reverseListKeepEnds(st, list) ==
    [st EXCEPT !.nodes = reverseNodes(st.nodes, st.chains[list].head)]

\* reverseList(list) on the store st = [nodes, chains, cb]
reverseList(st, list) ==
    LET temp == st.chains[list].head
    IN  [st EXCEPT !.nodes = reverseNodes(st.nodes, st.chains[list].head),
                   !.chains = [st.chains EXCEPT ![list].head = st.chains[list].tail,
                                                ![list].tail = temp]]

\* Mutant of remove_seq: the store's pointer s is not updated.
remove_seqKeepS(st, list) ==
    LET lp == st.chains[list].prev
        ln == st.chains[list].next
        c1 == IF lp # null THEN [st.chains EXCEPT ![lp].next = ln] ELSE st.chains
        c2 == IF ln # null THEN [c1 EXCEPT ![ln].prev = lp] ELSE c1
    IN  [st EXCEPT !.chains = c2,
                   !.cb = [st.cb EXCEPT !.count = st.cb.count - 1]]

\* Mutant of remove_seq: the predecessor is cut off from the rest of the list.
remove_seqCutsList(st, list) ==
    LET lp == st.chains[list].prev
        ln == st.chains[list].next
        c1 == IF lp # null THEN [st.chains EXCEPT ![lp].next = null] ELSE st.chains
        s1 == IF lp # null THEN st.cb.s ELSE ln
        c2 == IF ln # null THEN [c1 EXCEPT ![ln].prev = lp] ELSE c1
    IN  [st EXCEPT !.chains = c2,
                   !.cb = [st.cb EXCEPT !.s = s1, !.count = st.cb.count - 1]]

\* Mutant of remove_seq: the successor keeps its prev pointer.
remove_seqStalePrev(st, list) ==
    LET lp == st.chains[list].prev
        ln == st.chains[list].next
        c1 == IF lp # null THEN [st.chains EXCEPT ![lp].next = ln] ELSE st.chains
        s1 == IF lp # null THEN st.cb.s ELSE ln
    IN  [st EXCEPT !.chains = c1,
                   !.cb = [st.cb EXCEPT !.s = s1, !.count = st.cb.count - 1]]

\* ContourBuilder.prototype.remove_seq
remove_seq(st, list) ==
    LET lp == st.chains[list].prev
        ln == st.chains[list].next
        c1 == IF lp # null THEN [st.chains EXCEPT ![lp].next = ln] ELSE st.chains
        s1 == IF lp # null THEN st.cb.s ELSE ln
        c2 == IF ln # null THEN [c1 EXCEPT ![ln].prev = lp] ELSE c1
    IN  [st EXCEPT !.chains = c2,
                   !.cb = [st.cb EXCEPT !.s = s1, !.count = st.cb.count - 1]]

(***************************************************************************)
(* ContourBuilder.prototype.addSegment on the store st = [nodes, chains,   *)
(* cb], where cb is the ContourBuilder {level, s, count}.                  *)
(***************************************************************************)
\* Mutant of scan: only the heads are compared with a and b.
RECURSIVE scanHeadsOnly(_, _, _, _, _)
scanHeadsOnly(st, ss, a, b, m) ==
    IF ss = null THEN m
    ELSE
        LET hp == st.nodes[st.chains[ss].head].p
            m1 == IF m.ma = null /\ pointsEqual(a, hp)
                  THEN [m EXCEPT !.ma = ss, !.prependA = TRUE]
                  ELSE m
            m2 == IF m1.mb = null /\ pointsEqual(b, hp)
                  THEN [m1 EXCEPT !.mb = ss, !.prependB = TRUE]
                  ELSE m1
        IN  IF m2.mb # null /\ m2.ma # null
            THEN m2
            ELSE scanHeadsOnly(st, st.chains[ss].next, a, b, m2)

\* The endpoint scan: m = [ma, mb, prependA, prependB], ss the list cursor.
RECURSIVE scan(_, _, _, _, _)
scan(st, ss, a, b, m) ==
    IF ss = null THEN m
    ELSE
        LET hp == st.nodes[st.chains[ss].head].p
            tp == st.nodes[st.chains[ss].tail].p
            m1 == IF m.ma = null
                  THEN IF pointsEqual(a, hp)
                       THEN [m EXCEPT !.ma = ss, !.prependA = TRUE]
                       ELSE IF pointsEqual(a, tp)
                            THEN [m EXCEPT !.ma = ss]
                            ELSE m
                  ELSE m
            m2 == IF m1.mb = null
                  THEN IF pointsEqual(b, hp)
                       THEN [m1 EXCEPT !.mb = ss, !.prependB = TRUE]
                       ELSE IF pointsEqual(b, tp)
                            THEN [m1 EXCEPT !.mb = ss]
                            ELSE m1
                  ELSE m1
        IN  IF m2.mb # null /\ m2.ma # null
            THEN m2
            ELSE scan(st, st.chains[ss].next, a, b, m2)

\* Mutant of newSequence: the new record is not linked to the list it is put
\* in front of.
newSequenceAlone(st, a, b) ==
    LET aa == Len(st.nodes) + 1
        bb == Len(st.nodes) + 2
        ma == Len(st.chains) + 1
        ns == st.nodes \o << [p |-> a, prev |-> null, next |-> bb],
                             [p |-> b, prev |-> aa, next |-> null] >>
        c0 == Append(st.chains, [head |-> aa, tail |-> bb, next |-> null,
                                 prev |-> null, closed |-> FALSE])
    IN  [nodes |-> ns, chains |-> c0,
         cb |-> [st.cb EXCEPT !.s = ma, !.count = st.cb.count + 1]]

\* case 0: both unmatched, add as new sequence at the head of the main list
newSequence(st, a, b) ==
    LET aa == Len(st.nodes) + 1
        bb == Len(st.nodes) + 2
        ma == Len(st.chains) + 1
        ns == st.nodes \o << [p |-> a, prev |-> null, next |-> bb],
                             [p |-> b, prev |-> aa, next |-> null] >>
        c0 == Append(st.chains, [head |-> aa, tail |-> bb, next |-> st.cb.s,
                                 prev |-> null, closed |-> FALSE])
        c1 == IF st.cb.s # null THEN [c0 EXCEPT ![st.cb.s].prev = ma] ELSE c0
    IN  [nodes |-> ns, chains |-> c1,
         cb |-> [st.cb EXCEPT !.s = ma, !.count = st.cb.count + 1]]

\* Mutant of extend: the new point always goes after the tail.
extendAlwaysAppend(st, m, prepend, q) ==
    LET pp == Len(st.nodes) + 1
        t  == st.chains[m].tail
    IN  [st EXCEPT
            !.nodes = Append([st.nodes EXCEPT ![t].next = pp],
                             [p |-> q, prev |-> t, next |-> null]),
            !.chains = [st.chains EXCEPT ![m].tail = pp]]

\* cases 1 and 2: point q extends sequence m, before its head or after its tail
extend(st, m, prepend, q) ==
    LET pp == Len(st.nodes) + 1
        h  == st.chains[m].head
        t  == st.chains[m].tail
    IN  IF prepend
        THEN [st EXCEPT
                !.nodes = Append([st.nodes EXCEPT ![h].prev = pp],
                                 [p |-> q, prev |-> null, next |-> h]),
                !.chains = [st.chains EXCEPT ![m].head = pp]]
        ELSE [st EXCEPT
                !.nodes = Append([st.nodes EXCEPT ![t].next = pp],
                                 [p |-> q, prev |-> t, next |-> null]),
                !.chains = [st.chains EXCEPT ![m].tail = pp]]

\* Mutant of closeSequence: the path is closed by linking its tail to its
\* head.
closeSequenceRing(st, ma) ==
    LET h == st.chains[ma].head
        t == st.chains[ma].tail
    IN  [st EXCEPT
            !.nodes = [st.nodes EXCEPT ![h].prev = t, ![t].next = h],
            !.chains = [st.chains EXCEPT ![ma].closed = TRUE]]

\* Mutant of closeSequence: the path is marked closed, no point is added.
closeSequenceNoWrap(st, ma) ==
    [st EXCEPT !.chains = [st.chains EXCEPT ![ma].closed = TRUE]]

\* case 3, ma === mb: close the path
closeSequence(st, ma) ==
    LET pp == Len(st.nodes) + 1
        h  == st.chains[ma].head
        t  == st.chains[ma].tail
    IN  [st EXCEPT
            !.nodes = Append([st.nodes EXCEPT ![h].prev = pp],
                             [p |-> st.nodes[t].p, prev |-> null, next |-> h]),
            !.chains = [st.chains EXCEPT ![ma].head = pp, ![ma].closed = TRUE]]

\* Mutant of appendTo: the record of x stays in the list.
appendToKeepRecord(st, x, y) ==
    LET xh == st.chains[x].head
        xt == st.chains[x].tail
        yt == st.chains[y].tail
    IN  [st EXCEPT
           !.nodes = [st.nodes EXCEPT ![yt].next = xh, ![xh].prev = yt],
           !.chains = [st.chains EXCEPT ![y].tail = xt]]

\* head-tail splice: sequence x is appended to sequence y and x is discarded
appendTo(st, x, y) ==
    LET xh == st.chains[x].head
        xt == st.chains[x].tail
        yt == st.chains[y].tail
        s1 == [st EXCEPT
                 !.nodes = [st.nodes EXCEPT ![yt].next = xh, ![xh].prev = yt],
                 !.chains = [st.chains EXCEPT ![y].tail = xt]]
    IN  remove_seq(s1, x)

\* Mutant of merge: the tail-tail and head-head joins do not reverse ma.
mergeNoReverse(st, ma, mb, prependA, prependB) ==
    LET c == (IF prependA THEN 1 ELSE 0) + (IF prependB THEN 2 ELSE 0)
    IN  CASE c = 0 -> appendTo(st, ma, mb)
          [] c = 1 -> appendTo(st, ma, mb)
          [] c = 3 -> appendTo(st, mb, ma)
          [] c = 2 -> appendTo(st, mb, ma)

\* case 3, ma # mb: the four joins
merge(st, ma, mb, prependA, prependB) ==
    LET c == (IF prependA THEN 1 ELSE 0) + (IF prependB THEN 2 ELSE 0)
    IN  CASE c = 0 -> appendTo(reverseList(st, ma), ma, mb)   \* tail-tail
          [] c = 1 -> appendTo(st, ma, mb)                    \* head-tail
          [] c = 3 -> appendTo(reverseList(st, ma), mb, ma)   \* head-head
          [] c = 2 -> appendTo(st, mb, ma)                    \* tail-head

\* Mutant of addSegment: case 2 reads prependA where it should read prependB.
addSegmentCase2PrependA(st, a, b) ==
    LET m == scan(st, st.cb.s, a, b,
                  [ma |-> null, mb |-> null,
                   prependA |-> FALSE, prependB |-> FALSE])
        c == (IF m.ma # null THEN 1 ELSE 0) + (IF m.mb # null THEN 2 ELSE 0)
    IN  CASE c = 0 -> newSequence(st, a, b)
          [] c = 1 -> extend(st, m.ma, m.prependA, b)
          [] c = 2 -> extend(st, m.mb, m.prependA, a)
          [] c = 3 -> IF m.ma = m.mb
                      THEN closeSequence(st, m.ma)
                      ELSE merge(st, m.ma, m.mb, m.prependA, m.prependB)

addSegment(st, a, b) ==
    LET m == scan(st, st.cb.s, a, b,
                  [ma |-> null, mb |-> null,
                   prependA |-> FALSE, prependB |-> FALSE])
        c == (IF m.ma # null THEN 1 ELSE 0) + (IF m.mb # null THEN 2 ELSE 0)
    IN  CASE c = 0 -> newSequence(st, a, b)
          [] c = 1 -> extend(st, m.ma, m.prependA, b)
          [] c = 2 -> extend(st, m.mb, m.prependB, a)
          [] c = 3 -> IF m.ma = m.mb
                      THEN closeSequence(st, m.ma)
                      ELSE merge(st, m.ma, m.mb, m.prependA, m.prependB)

\* The store of level index k in the current state.
Store(k) == [nodes |-> nodes, chains |-> chains, cb |-> contours[k]]

(***************************************************************************)
(* buildImplied: the level / triangle scan.                                *)
(***************************************************************************)
InitWith(levelLists) ==
    /\ nodes = << >>
    /\ chains = << >>
    /\ contours = << >>
    /\ levels \in levelLists
    /\ i = 0
    /\ pc = "loop"
    /\ segs = << >>
    /\ lines = << >>
    /\ grid = Grid
    /\ probe = << >>
    /\ net = << >>

\* Mutant of StartLevel: the new ContourBuilder starts from the list of the
\* previous level's builder.
StartLevelSharedList ==
    /\ pc = "loop"
    /\ i < Len(levels)
    /\ contours' = Append(contours,
                          IF contours = << >>
                          THEN ContourBuilder(levels[i + 1])
                          ELSE [contours[Len(contours)] EXCEPT !.level = levels[i + 1]])
    /\ segs' = Append(segs, << >>)
    /\ pc' = "tri"
    /\ UNCHANGED <<nodes, chains, levels, i, lines, grid, others>>

\* One iteration of the level loop begins: cb = contours[i] = new ContourBuilder(l).
\* contours and segs are indexed by i + 1, the key of the layout being i.
StartLevel ==
    /\ pc = "loop"
    /\ i < Len(levels)
    /\ contours' = Append(contours, ContourBuilder(levels[i + 1]))
    /\ segs' = Append(segs, << >>)
    /\ pc' = "tri"
    /\ UNCHANGED <<nodes, chains, levels, i, lines, grid, others>>

\* A triangle reports a crossing (a, b) at the level: cb.addSegment(a, b).
AddSegment(max) ==
    /\ pc = "tri"
    /\ Len(segs[1]) + (IF Len(segs) > 1 THEN Len(segs[2]) ELSE 0) < max
    /\ \E a \in Points, b \in Points :
          LET r == addSegment(Store(i + 1), a, b)
          IN  /\ nodes' = r.nodes
              /\ chains' = r.chains
              /\ contours' = [contours EXCEPT ![i + 1] = r.cb]
              /\ segs' = [segs EXCEPT ![i + 1] = Append(@, <<a, b>>)]
    /\ UNCHANGED <<levels, i, pc, lines, grid, others>>

\* The triangle loop of level i is over.
EndLevel ==
    /\ pc = "tri"
    /\ i' = i + 1
    /\ pc' = "loop"
    /\ UNCHANGED <<nodes, chains, contours, levels, segs, lines, grid, others>>

(***************************************************************************)
(* contourList: collect every sequence of every level, close the unclosed  *)
(* ones along the bounding rectangle, and sort the polylines by key.       *)
(* A polyline is [level, k, pts]: the array l2 with its level and k tags.  *)
(***************************************************************************)
\* while (h && h.p) { l2.push(h.p); h = h.next; }
RECURSIVE walk(_, _)
walk(ns, h) == IF h = null THEN << >> ELSE <<ns[h].p>> \o walk(ns, ns[h].next)

\* The while (s) loop over one level's list: r = [l, unclosed].
RECURSIVE collect(_, _, _, _, _, _)
collect(ns, cs, s, level, k, r) ==
    IF s = null THEN r
    ELSE LET l2 == [level |-> level, k |-> k, pts |-> walk(ns, cs[s].head)]
             r1 == IF cs[s].closed = FALSE
                   THEN [r EXCEPT !.unclosed = Append(@, l2)]
                   ELSE [r EXCEPT !.l = Append(@, l2)]
         IN  collect(ns, cs, cs[s].next, level, k, r1)

closeEnough(a0, b0) ==
    LET ab == a0 - b0 IN ab * ab < EPSILON

\* Mutant of code: the right edge coded by y, not by -y.
codeUnsigned(pts, chooseLast) ==
    LET p == pts[IF chooseLast THEN Len(pts) ELSE 1]
    IN  IF closeEnough(p[1], minx) THEN <<0, p[2]>>
        ELSE IF closeEnough(p[2], maxy) THEN <<1, p[1]>>
        ELSE IF closeEnough(p[1], maxx) THEN <<2, p[2]>>
        ELSE IF closeEnough(p[2], miny) THEN <<3, 0 - p[1]>>
        ELSE <<0, 0>>

\* Mutant of code: a point on no edge coded after the bottom edge.
codeDefaultLast(pts, chooseLast) ==
    LET p == pts[IF chooseLast THEN Len(pts) ELSE 1]
    IN  IF closeEnough(p[1], minx) THEN <<0, p[2]>>
        ELSE IF closeEnough(p[2], maxy) THEN <<1, p[1]>>
        ELSE IF closeEnough(p[1], maxx) THEN <<2, 0 - p[2]>>
        ELSE IF closeEnough(p[2], miny) THEN <<3, 0 - p[1]>>
        ELSE <<4, 0>>

\* code(points, chooseLast) on the point array pts
code(pts, chooseLast) ==
    LET p == pts[IF chooseLast THEN Len(pts) ELSE 1]
    IN  IF closeEnough(p[1], minx) THEN <<0, p[2]>>
        ELSE IF closeEnough(p[2], maxy) THEN <<1, p[1]>>
        ELSE IF closeEnough(p[1], maxx) THEN <<2, 0 - p[2]>>
        ELSE IF closeEnough(p[2], miny) THEN <<3, 0 - p[1]>>
        ELSE <<0, 0>>

\* Mutant of compare: only the edge indexes are compared.
compareEdgeOnly(a, b) ==
    LET a0 == code(a.pts, FALSE)
        b0 == code(b.pts, FALSE)
    IN  a0[1] - b0[1]

\* compare(a, b) of two polylines
compare(a, b) ==
    LET a0 == code(a.pts, FALSE)
        b0 == code(b.pts, FALSE)
    IN  IF a0[1] = b0[1] THEN a0[2] - b0[2] ELSE a0[1] - b0[1]

\* Mutant of compareK: the polylines are compared by level value.
compareLevel(a, b) == a.level - b.level

\* compareK(a, b): the comparator of the final l.sort
compareK(a, b) == a.k - b.k

\* Array.prototype.sort with a comparator: a stable sort, by insertion.
\* The comparator is the function cmp on pairs of elements; x goes behind
\* the last element that does not compare greater than it.
insertSorted(sorted, x, cmp) ==
    LET js == {j \in 1..Len(sorted) : cmp[sorted[j], x] <= 0}
        j  == IF js = {} THEN 0 ELSE pv_max(js)
    IN  SubSeq(sorted, 1, j) \o <<x>> \o SubSeq(sorted, j + 1, Len(sorted))

sort(arr, cmp) ==
    LET f[n \in 0..Len(arr)] ==
            IF n = 0 THEN << >> ELSE insertSorted(f[n - 1], arr[n], cmp)
    IN  f[Len(arr)]

\* Mutant of corner: the y coordinates of the corners exchanged.
cornerFlipped(m) ==
    << IF m = 0 \/ m = 1 THEN minx ELSE maxx,
       IF m = 3 \/ m = 0 THEN maxy ELSE miny >>

\* The corner the closing loop inserts for edge index m
corner(m) ==
    << IF m = 0 \/ m = 1 THEN minx ELSE maxx,
       IF m = 3 \/ m = 0 THEN miny ELSE maxy >>

\* Mutant of corners: the corner is chosen by c0[0], not by c0[0] % 4.
RECURSIVE cornersNoWrap(_, _)
cornersNoWrap(c, c0) ==
    IF c0 > c THEN Append(cornersNoWrap(c, c0 - 1), corner(c0)) ELSE << >>

\* The corners the while (c0[0] > c[0]) loop has unshifted when it ends
RECURSIVE corners(_, _)
corners(c, c0) ==
    IF c0 > c THEN Append(corners(c, c0 - 1), corner(c0 % 4)) ELSE << >>

\* Mutant of stitchStep: a head on the edge of the tail also counts as a full
\* circle of the rectangle.
stitchStepFullCircle(unclosed, idx) ==
    LET last     == idx = Len(unclosed)
        fullEdge == IF last THEN unclosed[idx] ELSE unclosed[idx + 1]
        edge     == IF last THEN << fullEdge.pts[Len(fullEdge.pts)] >>
                            ELSE unclosed[idx].pts
        c        == code(edge, TRUE)
        c00      == code(fullEdge.pts, FALSE)
        c0       == IF c00[1] <= c[1] THEN c00[1] + 4 ELSE c00[1]
        grown    == [fullEdge EXCEPT !.pts = edge \o corners(c[1], c0) \o @]
    IN  [unclosed EXCEPT ![IF last THEN idx ELSE idx + 1] = grown]

\* One iteration of the closing loop at (1-based) position idx of `unclosed'
stitchStep(unclosed, idx) ==
    LET last     == idx = Len(unclosed)
        fullEdge == IF last THEN unclosed[idx] ELSE unclosed[idx + 1]
        edge     == IF last THEN << fullEdge.pts[Len(fullEdge.pts)] >>
                            ELSE unclosed[idx].pts
        c        == code(edge, TRUE)
        c00      == code(fullEdge.pts, FALSE)
        c0       == IF c00[1] < c[1] THEN c00[1] + 4 ELSE c00[1]
        grown    == [fullEdge EXCEPT !.pts = edge \o corners(c[1], c0) \o @]
    IN  [unclosed EXCEPT ![IF last THEN idx ELSE idx + 1] = grown]

RECURSIVE stitch(_, _)
stitch(unclosed, idx) ==
    IF idx > Len(unclosed) THEN unclosed
    ELSE stitch(stitchStep(unclosed, idx), idx + 1)

\* Mutant of levelLines: fullEdge is pushed without the if (fullEdge) test.
levelLinesPushNull(ns, cs, cb, k) ==
    LET r  == collect(ns, cs, cb.s, cb.level, k, [l |-> << >>, unclosed |-> << >>])
        u  == stitch(sort(r.unclosed,
                          [x \in Range(r.unclosed), y \in Range(r.unclosed)
                              |-> compare(x, y)]), 1)
    IN  Append(r.l, IF u = << >> THEN null ELSE u[Len(u)])

\* Mutant of levelLines: every unclosed array is pushed, not only the last
\* fullEdge.
levelLinesAll(ns, cs, cb, k) ==
    LET r  == collect(ns, cs, cb.s, cb.level, k, [l |-> << >>, unclosed |-> << >>])
        u  == stitch(sort(r.unclosed,
                          [x \in Range(r.unclosed), y \in Range(r.unclosed)
                              |-> compare(x, y)]), 1)
    IN  r.l \o u

\* The body of the for (k in a) loop for key k: what it appends to l
levelLines(ns, cs, cb, k) ==
    LET r  == collect(ns, cs, cb.s, cb.level, k, [l |-> << >>, unclosed |-> << >>])
        u  == stitch(sort(r.unclosed,
                          [x \in Range(r.unclosed), y \in Range(r.unclosed)
                              |-> compare(x, y)]), 1)
    IN  IF u = << >> THEN r.l ELSE Append(r.l, u[Len(u)])

RECURSIVE allLines(_, _, _, _)
allLines(ns, cs, a, k) ==
    IF k >= Len(a) THEN << >>
    ELSE levelLines(ns, cs, a[k + 1], k) \o allLines(ns, cs, a, k + 1)

contourList(ns, cs, a) ==
    LET l == allLines(ns, cs, a, 0)
    IN  sort(l, [x \in Range(l), y \in Range(l) |-> compareK(x, y)])

\* The level loop is over: s.lines = contourList().
Finish ==
    /\ pc = "loop"
    /\ i >= Len(levels)
    /\ lines' = contourList(nodes, chains, contours)
    /\ pc' = "done"
    /\ UNCHANGED <<nodes, chains, contours, levels, i, segs, grid, others>>

(***************************************************************************)
(* Specifications: a layout with one level or none, and a layout with two  *)
(* levels.                                                                 *)
(***************************************************************************)
Init == InitWith(NoLevels \cup OneLevel)

Next ==
    \/ StartLevel
    \/ AddSegment(MaxSegs)
    \/ EndLevel
    \/ Finish

Spec == Init /\ [][Next]_vars

\* The same layout under a second name: the invariants of the store and of
\* what contourList outputs are checked in a run of their own.
SpecLines == Init /\ [][Next]_vars

InitLevels == InitWith(TwoLevels)

NextLevels ==
    \/ StartLevel
    \/ AddSegment(MaxSegsLevels)
    \/ EndLevel
    \/ Finish

SpecLevels == InitLevels /\ [][NextLevels]_vars

(***************************************************************************)
(* The perimeter ordering on its own: contourList at unclosed.sort(compare) *)
(* with two unclosed point arrays, over several grids.                     *)
(***************************************************************************)
\* The origins and the sizes of the grids given to the perimeter ordering.
Origins == {0 - 2, 0}
Sizes == {1, 2}
Grids ==
    {(x0..(x0 + w)) \X (y0..(y0 + h)) :
        x0 \in Origins, y0 \in Origins, w \in Sizes, h \in Sizes}

\* An unclosed point array of level index 0 that starts at p.
Unclosed(p) == [level |-> 5, k |-> 0, pts |-> <<p>>]

InitCode ==
    /\ nodes = << >>
    /\ chains = << >>
    /\ contours = << >>
    /\ levels = <<5>>
    /\ i = 1
    /\ pc = "sort"
    /\ segs = << >>
    /\ lines = << >>
    /\ grid \in Grids
    /\ \E p \in grid, q \in grid :
          probe = [unclosed |-> <<Unclosed(p), Unclosed(q)>>]
    /\ net = << >>

\* unclosed.sort(compare), with the codes and the comparison it computes
\* recorded.
SortUnclosed ==
    /\ pc = "sort"
    /\ LET u == probe.unclosed
       IN  probe' = [unclosed |-> u,
                     codes    |-> <<code(u[1].pts, FALSE), code(u[2].pts, FALSE)>>,
                     cmp      |-> compare(u[1], u[2]),
                     sorted   |-> sort(u, [x \in Range(u), y \in Range(u)
                                             |-> compare(x, y)])]
    /\ pc' = "sorted"
    /\ UNCHANGED <<nodes, chains, contours, levels, i, segs, lines, grid, net>>

NextCode == SortUnclosed

SpecCode == InitCode /\ [][NextCode]_vars

(***************************************************************************)
(* The closing loop on its own: contourList from unclosed.sort(compare) to *)
(* the end of the for loop, with two unclosed point arrays of two points   *)
(* each, over the same grids.                                              *)
(***************************************************************************)
\* An unclosed point array of level index 0 from head h to tail t.
UnclosedPair(h, t) == [level |-> 5, k |-> 0, pts |-> <<h, t>>]

InitClose ==
    /\ nodes = << >>
    /\ chains = << >>
    /\ contours = << >>
    /\ levels = <<5>>
    /\ i = 1
    /\ pc = "sort"
    /\ segs = << >>
    /\ lines = << >>
    /\ grid \in Grids
    /\ \E h1 \in grid, t1 \in grid, h2 \in grid, t2 \in grid :
          probe = [unclosed |-> <<UnclosedPair(h1, t1), UnclosedPair(h2, t2)>>]
    /\ net = << >>

\* for (var i=0; i<unclosed.length; i++) {...} on the sorted arrays: what the
\* arrays hold when the loop ends, the last one being fullEdge.
CloseLoops ==
    /\ pc = "sorted"
    /\ probe' = [unclosed |-> probe.unclosed,
                 codes    |-> probe.codes,
                 cmp      |-> probe.cmp,
                 sorted   |-> probe.sorted,
                 closed   |-> stitch(probe.sorted, 1)]
    /\ pc' = "closed"
    /\ UNCHANGED <<nodes, chains, contours, levels, i, segs, lines, grid, net>>

NextClose ==
    \/ SortUnclosed
    \/ CloseLoops

SpecClose == InitClose /\ [][NextClose]_vars

(***************************************************************************)
(* Views of the heap used by the properties.                               *)
(***************************************************************************)
\* The sequence records of a list, from s along next (at most fuel of them).
RECURSIVE listOf(_, _, _)
listOf(cs, s, fuel) ==
    IF s = null \/ fuel = 0 THEN << >>
    ELSE <<s>> \o listOf(cs, cs[s].next, fuel - 1)

\* The nodes of a sequence, from h along next (at most fuel of them).
RECURSIVE nodesFrom(_, _, _)
nodesFrom(ns, h, fuel) ==
    IF h = null \/ fuel = 0 THEN << >>
    ELSE <<h>> \o nodesFrom(ns, ns[h].next, fuel - 1)

Reverse(q) == [j \in 1..Len(q) |-> q[Len(q) + 1 - j]]

\* The list of store st, and the point sequence of its sequence record c.
List(st) == listOf(st.chains, st.cb.s, Len(st.chains) + 1)
Pts(st, c) ==
    LET ids == nodesFrom(st.nodes, st.chains[c].head, Len(st.nodes) + 1)
    IN  [j \in 1..Len(ids) |-> st.nodes[ids[j]].p]

\* The store a fresh ContourBuilder holds after the calls sq, in order.
EmptyStore(level) == [nodes |-> << >>, chains |-> << >>, cb |-> ContourBuilder(level)]

RECURSIVE Build(_, _)
Build(level, sq) ==
    IF sq = << >> THEN EmptyStore(level)
    ELSE LET n == Len(sq)
         IN  addSegment(Build(level, SubSeq(sq, 1, n - 1)), sq[n][1], sq[n][2])

Stores == 1..Len(contours)

\* The store of level index k after the step.
StoreNext(k) == [nodes |-> nodes', chains |-> chains', cb |-> contours'[k]]

\* The step is a call of addSegment on the store of the current level, with
\* the segment the history records last.
AddSegmentStep == pc = "tri" /\ segs' # segs
LastA == segs'[i + 1][Len(segs'[i + 1])][1]
LastB == segs'[i + 1][Len(segs'[i + 1])][2]

(***************************************************************************)
(* The segment graph of a sequence of segments.                            *)
(***************************************************************************)
Edge(sg) == {sg[1], sg[2]}
EdgeSet(sq) == {Edge(sq[j]) : j \in 1..Len(sq)}
Vertices(sq) == UNION EdgeSet(sq)

\* The number of segment ends at point p (a zero-length segment has two).
Degree(sq, p) ==
    Cardinality({j \in 1..Len(sq) : sq[j][1] = p})
  + Cardinality({j \in 1..Len(sq) : sq[j][2] = p})

\* No zero-length segment, no segment twice, at most two segments at a point.
Simple(sq) ==
    /\ \A j \in 1..Len(sq) : sq[j][1] # sq[j][2]
    /\ \A j, l \in 1..Len(sq) : j # l => Edge(sq[j]) # Edge(sq[l])
    /\ \A p \in Vertices(sq) : Degree(sq, p) <= 2

RECURSIVE Component(_, _)
Component(sq, S) ==
    LET T == S \cup {q \in Vertices(sq) : \E p \in S : {p, q} \in EdgeSet(sq)}
    IN  IF T = S THEN S ELSE Component(sq, T)

Components(sq) == {Component(sq, {p}) : p \in Vertices(sq)}

\* The edges a point sequence walks.
WalkEdges(q) == {{q[j], q[j + 1]} : j \in 1..(Len(q) - 1)}

(***************************************************************************)
(* C1                                                                      *)
(***************************************************************************)
\* The chain c of store st is the component K of the segments sq.
IsComponentChain(st, c, sq, K) ==
    LET q == Pts(st, c)
    IN  /\ Range(q) = K
        /\ WalkEdges(q) = {e \in EdgeSet(sq) : e \subseteq K}
        /\ IF \A p \in K : Degree(sq, p) = 2
           THEN /\ st.chains[c].closed = TRUE
                /\ Len(q) = Cardinality(K) + 1
                /\ q[1] = q[Len(q)]
           ELSE /\ st.chains[c].closed = FALSE
                /\ Len(q) = Cardinality(K)
                /\ Degree(sq, q[1]) = 1
                /\ Degree(sq, q[Len(q)]) = 1

ChainsAreComponents(st, sq) ==
    LET L == List(st)
    IN  /\ Len(L) = Cardinality(Components(sq))
        /\ \A K \in Components(sq) :
              Cardinality({j \in 1..Len(L) : IsComponentChain(st, L[j], sq, K)}) = 1

\* C1: when the segments passed to a store so far are simple (every point an
\* end of at most two of them, none twice, none of zero length), the chains
\* of the store are exactly the connected components of the segment graph: a
\* cycle is one closed chain, a path is one open chain that runs from one
\* degree-1 point to the other in path order.
C1_ChainsAreComponents ==
    \A k \in Stores : Simple(segs[k]) => ChainsAreComponents(Store(k), segs[k])

\* A four-segment cycle, built with a merge, is one closed chain.
C1_Witness ==
    /\ Len(segs) = 1
    /\ Len(segs[1]) = 4
    /\ Simple(segs[1])
    /\ Cardinality(Components(segs[1])) = 1
    /\ Len(chains) = 2
    /\ Len(List(Store(1))) = 1
    /\ chains[List(Store(1))[1]].closed

(***************************************************************************)
(* C2                                                                      *)
(***************************************************************************)
BagOf(items) ==
    [x \in Range(items) |-> Cardinality({j \in 1..Len(items) : items[j] = x})]

\* A closed loop as a point cycle: the point sequence without its duplicated
\* wrap point, up to rotation and direction.
Rotate(q, r) == [j \in 1..Len(q) |-> q[((j - 1 + r) % Len(q)) + 1]]
CycleOf(q) ==
    LET c == Tail(q)
    IN  UNION {{Rotate(c, r), Reverse(Rotate(c, r))} : r \in 0..(Len(c) - 1)}

\* The final set of chains of a store: the multiset of its closed loops and
\* of the endpoint pairs of its open chains.
ChainSet(st) ==
    LET L == List(st)
    IN  BagOf([j \in 1..Len(L) |->
                 LET q == Pts(st, L[j])
                 IN  IF st.chains[L[j]].closed
                     THEN <<"closed", CycleOf(q)>>
                     ELSE <<"open", {q[1], q[Len(q)]}>>])

Permuted(sq, f) == [j \in 1..Len(sq) |-> sq[f[j]]]

SameInAnyOrder(k) ==
    \A f \in Permutations(1..Len(segs[k])) :
        ChainSet(Build(levels[k], Permuted(segs[k], f))) = ChainSet(Store(k))

\* C2 as stated: whatever segments were passed to a store, passing them to a
\* fresh store in any other order gives the same closed loops and the same
\* open-chain endpoint pairs.
C2_AnyOrderAnySegments == \A k \in Stores : SameInAnyOrder(k)

\* At most two segment ends at every point (a zero-length segment has two
\* ends at its point, a repeated segment counts each time).
AtMostTwoEnds(sq) == \A p \in Vertices(sq) : Degree(sq, p) <= 2

\* C2, amended: when at most two segment ends lie at every point of the
\* segments passed to a store, passing them to a fresh store in any other
\* order gives the same closed loops and the same open-chain endpoint pairs.
C2_AnyOrderAtMostTwoEnds ==
    \A k \in Stores : AtMostTwoEnds(segs[k]) => SameInAnyOrder(k)

\* Three segments of a path were passed such that two chains existed and were
\* merged; the other five orders give the same single open chain.
C2_Witness ==
    /\ Len(segs) = 1
    /\ Len(segs[1]) = 3
    /\ Simple(segs[1])
    /\ Len(chains) = 2
    /\ Len(List(Store(1))) = 1
    /\ ~chains[List(Store(1))[1]].closed

(***************************************************************************)
(* C3                                                                      *)
(***************************************************************************)
\* The chains of a store up to direction, record identity and list position:
\* the multiset of <<closed flag, point sequence or its reversal>>.
ChainsUpToDirection(st) ==
    LET L == List(st)
    IN  BagOf([j \in 1..Len(L) |->
                 LET q == Pts(st, L[j])
                 IN  <<st.chains[L[j]].closed, {q, Reverse(q)}>>])

Symmetric(st) ==
    \A a \in Points, b \in Points :
        ChainsUpToDirection(addSegment(st, a, b))
            = ChainsUpToDirection(addSegment(st, b, a))

\* C3 as stated: from every reachable store, addSegment(a, b) and
\* addSegment(b, a) give the same chains (closed flags and point sequences)
\* up to direction, surviving record and list position.
C3_CoincidenceSymmetry == \A k \in Stores : Symmetric(Store(k))

(***************************************************************************)
(* C4                                                                      *)
(***************************************************************************)
ClosedChainsKept(k) ==
    \A c \in Range(List(Store(k))) :
        chains[c].closed =>
            /\ c \in Range(List(StoreNext(k)))
            /\ chains'[c].closed
            /\ Pts(StoreNext(k), c) = Pts(Store(k), c)

\* C4 as stated: a chain with closed = TRUE is never extended or merged by a
\* later addSegment: it stays in the list, closed, with the same points.
C4_ClosedChainsFrozen == [][\A k \in Stores : ClosedChainsKept(k)]_vars

(***************************************************************************)
(* C5                                                                      *)
(***************************************************************************)
ClosedPolyline(pts) == pointsEqual(pts[1], pts[Len(pts)])

\* C5 as stated: every contour of the output list is a closed polyline, its
\* first point coinciding with its last, whatever segments were fed.
C5_AllContoursClosed ==
    pc = "done" => \A j \in 1..Len(lines) : ClosedPolyline(lines[j].pts)

(***************************************************************************)
(* C6                                                                      *)
(***************************************************************************)
\* The chains of a store in list order, with the live count.
StoreView(st) ==
    LET L == List(st)
    IN  [count |-> st.cb.count,
         list  |-> [j \in 1..Len(L) |->
                      [closed |-> st.chains[L[j]].closed, pts |-> Pts(st, L[j])]]]

\* The contours of the output list that carry key kk, without the key.
Untagged(ls) == [j \in 1..Len(ls) |-> [level |-> ls[j].level, pts |-> ls[j].pts]]
LinesOfKey(kk) ==
    LET HasKey(x) == x.k = kk
    IN  Untagged(SelectSeq(lines, HasKey))

\* The output of a run whose only level is level, fed the segments sq.
SoloLines(level, sq) ==
    LET st == Build(level, sq)
    IN  Untagged(contourList(st.nodes, st.chains, <<st.cb>>))

\* C6: at every moment the chains of each level are those of a run with that
\* level alone (segments added for another level change nothing), and the
\* contours output for level index k - 1 are, point by point and in order,
\* those of the run with that level alone.
C6_LevelIndependence ==
    \A k \in Stores :
        /\ StoreView(Store(k)) = StoreView(Build(levels[k], segs[k]))
        /\ pc = "done" => LinesOfKey(k - 1) = SoloLines(levels[k], segs[k])

\* Two levels, each with its own segments, have been output.
C6_Witness ==
    /\ pc = "done"
    /\ Len(levels) = 2
    /\ Len(segs[1]) >= 1
    /\ Len(segs[2]) >= 2
    /\ Len(LinesOfKey(0)) >= 1
    /\ Len(LinesOfKey(1)) >= 1

(***************************************************************************)
(* C7                                                                      *)
(***************************************************************************)
\* C7: the output list is in ascending order of the level index k, also when
\* the level values are not in numeric order.
C7_SortedByLevelIndex ==
    pc = "done" =>
        \A p1, q1 \in 1..Len(lines) : p1 < q1 => lines[p1].k <= lines[q1].k

\* Both levels of a list that is not numerically sorted have contours.
C7_Witness ==
    /\ pc = "done"
    /\ Len(levels) = 2
    /\ levels[1] > levels[2]
    /\ \E p1, q1 \in 1..Len(lines) : lines[p1].k = 0 /\ lines[q1].k = 1

(***************************************************************************)
(* C8                                                                      *)
(***************************************************************************)
\* The nodes of chain c form a consistent head-to-tail doubly linked walk.
ChainLinked(st, c) ==
    LET ns  == st.nodes
        h   == st.chains[c].head
        t   == st.chains[c].tail
        ids == nodesFrom(ns, h, Len(ns) + 1)
    IN  /\ h # null
        /\ t # null
        /\ ns[h].prev = null
        /\ ns[t].next = null
        /\ Len(ids) <= Len(ns)
        /\ ids[Len(ids)] = t
        /\ \A j \in 1..Len(ids) :
              ns[ids[j]].next # null => ns[ns[ids[j]].next].prev = ids[j]

\* C8: every chain in a store's list has head.prev = null, tail.next = null,
\* reaches its tail from its head along next, and n.next.prev = n for each
\* of its nodes, also after the reversals of tail-tail and head-head merges.
C8_ChainLinkInvariant ==
    \A k \in Stores : \A c \in Range(List(Store(k))) : ChainLinked(Store(k), c)

\* The first chain created was reversed by a merge and is part of a chain.
C8_Witness ==
    /\ Len(nodes) >= 4
    /\ nodes[1].prev = 2
    /\ nodes[2].next = 1
    /\ Len(chains) > Len(List(Store(1)))

(***************************************************************************)
(* C9                                                                      *)
(***************************************************************************)
\* The chains, in the list of some store, whose head reaches node n.
Owners(n) ==
    UNION {{<<k, c>> : c \in {c \in Range(List(Store(k))) :
                n \in Range(nodesFrom(nodes, chains[c].head, Len(nodes) + 1))}} :
           k \in Stores}

\* C9: every node is reachable from the head of exactly one chain that is in
\* a list: never from two, and the nodes of a chain discarded by a merge only
\* through the surviving chain.
C9_NodesOwnedOnce == \A n \in 1..Len(nodes) : Cardinality(Owners(n)) = 1

\* Two merges have left one open chain of three records.
C9_Witness ==
    /\ Len(segs) = 1
    /\ Len(segs[1]) = 4
    /\ Len(chains) = 2
    /\ Len(nodes) = 5
    /\ Len(List(Store(1))) = 1
    /\ ~chains[List(Store(1))[1]].closed

(***************************************************************************)
(* C10                                                                     *)
(***************************************************************************)
\* The ends of chain c coincide with a and b, one each.
EndsMatch(st, c, a, b) ==
    LET hp == st.nodes[st.chains[c].head].p
        tp == st.nodes[st.chains[c].tail].p
    IN  \/ pointsEqual(a, hp) /\ pointsEqual(b, tp)
        \/ pointsEqual(a, tp) /\ pointsEqual(b, hp)

Closes(k, c) ==
    /\ chains'[c].closed
    /\ Pts(StoreNext(k), c)
         = <<nodes[chains[c].tail].p>> \o Pts(Store(k), c)
    /\ List(StoreNext(k)) = List(Store(k))
    /\ contours'[k].count = contours[k].count
    /\ Len(chains') = Len(chains)

\* C10: a call of addSegment whose endpoints coincide with the head and the
\* tail of one open chain closes that chain: closed becomes TRUE, a copy of
\* the tail point is put before the head, and no chain is created or removed.
C10_ClosingAChain ==
    [][AddSegmentStep =>
          \A c \in Range(List(Store(i + 1))) :
              (~chains[c].closed /\ EndsMatch(Store(i + 1), c, LastA, LastB))
                  => Closes(i + 1, c)]_vars

\* The single segment of a two-point chain [a, b] was added again: one
\* closed chain [b, a, b].
C10_Witness ==
    /\ Len(segs) = 1
    /\ Len(segs[1]) = 2
    /\ segs[1][1] = segs[1][2]
    /\ segs[1][1][1] # segs[1][1][2]
    /\ List(Store(1)) = <<1>>
    /\ chains[1].closed
    /\ Pts(Store(1), 1) = <<segs[1][1][2], segs[1][1][1], segs[1][1][2]>>
    /\ contours[1].count = 1

(***************************************************************************)
(* The boundary closer on a level with a single open chain.                *)
(***************************************************************************)
\* The open and the closed sequence records of a store, in list order.
OpenChains(st) ==
    LET IsOpen(c) == ~st.chains[c].closed
    IN  SelectSeq(List(st), IsOpen)
ClosedChains(st) ==
    LET IsClosed(c) == st.chains[c].closed
    IN  SelectSeq(List(st), IsClosed)

\* The contour the boundary closer appends for level index k - 1: the last
\* one of the level.
Stitched(k) == LinesOfKey(k - 1)[Len(LinesOfKey(k - 1))]

OnLeftEdge(p) == p[1] = minx
OnTopEdge(p) == p[2] = maxy /\ p[1] # minx

\* The only open chain of level index k - 1 runs between a point of the left
\* edge and a point of the top edge.
HeadOnTop(k) ==
    /\ Len(OpenChains(Store(k))) = 1
    /\ LET P == Pts(Store(k), OpenChains(Store(k))[1])
       IN  OnTopEdge(P[1]) /\ OnLeftEdge(P[Len(P)])
HeadOnLeft(k) ==
    /\ Len(OpenChains(Store(k))) = 1
    /\ LET P == Pts(Store(k), OpenChains(Store(k))[1])
       IN  OnLeftEdge(P[1]) /\ OnTopEdge(P[Len(P)])

\* [leftPoint, corner (minx, maxy), topPoint, ..., leftPoint], the chain
\* being P read from its top end.
RoundTrip(P) == <<P[Len(P)], <<minx, maxy>>>> \o P

\* C11 as stated: whichever end of the only open chain is its head, the
\* closed contour is [leftPoint, (minx, maxy), topPoint, ..., leftPoint].
C11_RoundTripEitherHead ==
    pc = "done" =>
        \A k \in Stores :
            LET P == Pts(Store(k), OpenChains(Store(k))[1])
            IN  /\ HeadOnTop(k) => Stitched(k).pts = RoundTrip(P)
                /\ HeadOnLeft(k) => Stitched(k).pts = RoundTrip(Reverse(P))

\* C11, amended: when the head of the only open chain is the top-edge point
\* and its tail the left-edge point, the closed contour is
\* [leftPoint, (minx, maxy), topPoint, ..., leftPoint], with the single
\* corner (minx, maxy) between leftPoint and topPoint.
C11_RoundTripHeadOnTop ==
    pc = "done" =>
        \A k \in Stores :
            HeadOnTop(k) =>
                Stitched(k).pts
                    = RoundTrip(Pts(Store(k), OpenChains(Store(k))[1]))

C11_Witness ==
    /\ pc = "done"
    /\ \E k \in Stores :
          /\ HeadOnTop(k)
          /\ Len(Pts(Store(k), OpenChains(Store(k))[1])) = 3
          /\ Len(Stitched(k).pts) = 5
          /\ Stitched(k).pts[2] = <<minx, maxy>>

\* The edge of the bounding rectangle a chain end counts for: left, top,
\* right, bottom are 0..3, a corner counts for the first edge of that order
\* it lies on, and a point on no edge counts as left.
EdgeOf(p) ==
    IF p[1] = minx THEN 0
    ELSE IF p[2] = maxy THEN 1
    ELSE IF p[1] = maxx THEN 2
    ELSE IF p[2] = miny THEN 3
    ELSE 0

\* The only open chain of level index k - 1 and its points.
OnlyOpen(k) == Pts(Store(k), OpenChains(Store(k))[1])

\* The chain closed directly: its own points after a copy of its last one.
ClosedDirectly(P) == <<P[Len(P)]>> \o P

\* C12 as stated: a level with exactly one open chain has it closed directly,
\* with no corner point, whatever edges its two ends lie on.
C12_OneChainNoCorner ==
    pc = "done" =>
        \A k \in Stores :
            Len(OpenChains(Store(k))) = 1 =>
                Stitched(k).pts = ClosedDirectly(OnlyOpen(k))

\* C12, amended: a level with exactly one open chain whose two ends count for
\* the same edge has it closed directly, with no corner point.
C12_OneChainSameEdgeNoCorner ==
    pc = "done" =>
        \A k \in Stores :
            /\ Len(OpenChains(Store(k))) = 1
            /\ EdgeOf(OnlyOpen(k)[1]) = EdgeOf(OnlyOpen(k)[Len(OnlyOpen(k))])
            => Stitched(k).pts = ClosedDirectly(OnlyOpen(k))

\* The amended claim is exact: with ends on different edges corner points
\* are inserted.
C12_OtherwiseCorners ==
    pc = "done" =>
        \A k \in Stores :
            /\ Len(OpenChains(Store(k))) = 1
            /\ EdgeOf(OnlyOpen(k)[1]) # EdgeOf(OnlyOpen(k)[Len(OnlyOpen(k))])
            => Len(Stitched(k).pts) > Len(OnlyOpen(k)) + 1

\* The open chain [interior, ..., left] with distinct ends, closed directly.
C12_Witness ==
    /\ pc = "done"
    /\ \E k \in Stores :
          /\ Len(OpenChains(Store(k))) = 1
          /\ Len(OnlyOpen(k)) = 3
          /\ OnlyOpen(k)[1] # OnlyOpen(k)[3]
          /\ EdgeOf(OnlyOpen(k)[1]) = EdgeOf(OnlyOpen(k)[3])
          /\ Stitched(k).pts = ClosedDirectly(OnlyOpen(k))

(***************************************************************************)
(* What contourList outputs for a level.                                   *)
(***************************************************************************)
\* The point sequences of the closed chains of a store, in list order.
ClosedPts(st) ==
    LET cl == ClosedChains(st)
    IN  [j \in 1..Len(cl) |-> Pts(st, cl[j])]

\* Every point of every open chain of a store.
OpenPoints(st) ==
    UNION {Range(Pts(st, c)) : c \in Range(OpenChains(st))}

\* C13: per level the output holds one polyline per closed chain of the
\* level's store, with exactly the chain's head-to-tail point sequence, and
\* after them one more polyline, through the points of all the open chains,
\* if the level has an open chain, and nothing more if it has none.
C13_PolylinesPerLevel ==
    pc = "done" =>
        \A k \in Stores :
            LET st == Store(k)
                out == LinesOfKey(k - 1)
                nc == Len(ClosedChains(st))
            IN  /\ Len(out) = nc + (IF OpenChains(st) = << >> THEN 0 ELSE 1)
                /\ \A j \in 1..nc : out[j].pts = ClosedPts(st)[j]
                /\ OpenChains(st) # << >> =>
                       OpenPoints(st) \subseteq Range(out[nc + 1].pts)

\* A level with one closed chain and two open ones: two polylines.
C13_Witness ==
    /\ pc = "done"
    /\ Len(contours) = 1
    /\ Len(ClosedChains(Store(1))) = 1
    /\ Len(OpenChains(Store(1))) = 2
    /\ Len(lines) = 2
    /\ lines[1].pts = ClosedPts(Store(1))[1]

(***************************************************************************)
(* The perimeter ordering.                                                 *)
(***************************************************************************)
\* The two heads given to the perimeter ordering.
HeadP == probe.unclosed[1].pts[1]
HeadQ == probe.unclosed[2].pts[1]

OnPerimeter(p) == p[1] \in {minx, maxx} \/ p[2] \in {miny, maxy}

\* How far along the clockwise walk a perimeter point is first met: the walk
\* starts at the bottom-left corner (minx, miny), goes up the left edge, along
\* the top edge, down the right edge and back along the bottom edge.
WalkPos(p) ==
    LET W == maxx - minx
        H == maxy - miny
    IN  IF p[1] = minx THEN p[2] - miny
        ELSE IF p[2] = maxy THEN H + (p[1] - minx)
        ELSE IF p[1] = maxx THEN H + W + (maxy - p[2])
        ELSE H + W + H + (maxx - p[1])

LexLess(c, d) == c[1] < d[1] \/ (c[1] = d[1] /\ c[2] < d[2])

\* C14: if p comes strictly before q on the clockwise walk of the perimeter,
\* code(p) is lexicographically smaller than code(q), and compare orders p
\* before q.
C14_CodesIncreaseClockwise ==
    (/\ pc = "sorted"
     /\ OnPerimeter(HeadP)
     /\ OnPerimeter(HeadQ)
     /\ WalkPos(HeadP) < WalkPos(HeadQ))
    => /\ LexLess(probe.codes[1], probe.codes[2])
       /\ probe.cmp < 0

\* The bottom-right corner against a point of the bottom edge, on a grid
\* whose origin is negative.
C14_Witness ==
    /\ pc = "sorted"
    /\ minx < 0
    /\ HeadP = <<maxx, miny>>
    /\ HeadQ = <<maxx - 1, miny>>
    /\ HeadQ[1] # minx
    /\ probe.codes = <<<<2, 0 - miny>>, <<3, 1 - maxx>>>>

\* Exactly one of the two heads lies on none of the four edges; j is its
\* position in probe.unclosed.
InnerAt(j) ==
    /\ ~OnPerimeter(probe.unclosed[j].pts[1])
    /\ OnPerimeter(probe.unclosed[3 - j].pts[1])

\* The array whose head lies on no edge has code (0, 0) and the sort leaves
\* it before the other one, or compare ties them.
InnerSortsFirst(j) ==
    /\ probe.codes[j] = <<0, 0>>
    /\ \/ probe.sorted = <<probe.unclosed[j], probe.unclosed[3 - j]>>
       \/ probe.cmp = 0

\* C15 as stated: for every bounding rectangle, an open chain whose head lies
\* on none of the four edges gets code (0, 0) and precedes, or ties with,
\* every open chain whose head lies on the boundary.
C15_InnerHeadFirst ==
    pc = "sorted" => \A j \in {1, 2} : InnerAt(j) => InnerSortsFirst(j)

\* C15, amended: the same for every bounding rectangle with miny >= 0.
C15_InnerHeadFirstFromZero ==
    (pc = "sorted" /\ miny >= 0) =>
        \A j \in {1, 2} : InnerAt(j) => InnerSortsFirst(j)

\* A head on the bottom edge given before a head on no edge: the sort
\* exchanges them.
C15_Witness ==
    /\ pc = "sorted"
    /\ miny >= 0
    /\ InnerAt(2)
    /\ HeadP[2] = miny
    /\ HeadP[1] # minx
    /\ probe.cmp > 0
    /\ probe.sorted = <<probe.unclosed[2], probe.unclosed[1]>>

(***************************************************************************)
(* Empty inputs.                                                           *)
(***************************************************************************)
\* No triangle of any level reported a crossing.
NoCrossing == \A k \in 1..Len(segs) : segs[k] = << >>

\* C16: with an empty levels list, or with levels but no crossing, no chain
\* is ever created (the heaps stay empty, every builder keeps an empty list)
\* and the output list is empty.
C16_EmptyInputsEmptyOutput ==
    NoCrossing =>
        /\ nodes = << >>
        /\ chains = << >>
        /\ \A k \in Stores : contours[k].s = null /\ contours[k].count = 0
        /\ lines = << >>

\* The run with an empty levels list has finished.
C16_Witness ==
    /\ pc = "done"
    /\ levels = << >>
    /\ contours = << >>
    /\ lines = << >>

\* The run with one level and no crossing has finished.
C16_WitnessNoCrossing ==
    /\ pc = "done"
    /\ Len(levels) = 1
    /\ Len(contours) = 1
    /\ NoCrossing
    /\ lines = << >>

(***************************************************************************)
(* The network layout (pv.Layout.Network): the cache of its properties and *)
(* the link degrees.                                                       *)
(*                                                                         *)
(* net = [id, nextId, objs, lnks, nodesDef, linksDef, scenes, rendered]:   *)
(* id is this.$id and nextId the counter behind pv.id(); objs is the heap  *)
(* of node objects [index, linkDegree] and lnks the heap of link objects   *)
(* [source, target, linkValue, value, sourceNode, targetNode]; nodesDef    *)
(* and linksDef are the values the nodes and links properties are defined  *)
(* with; scenes holds, per scene, [id, nodes, links] (s.$id, s.nodes,      *)
(* s.links); rendered is the scene the last call rendered, 0 after a       *)
(* reset.                                                                  *)
(***************************************************************************)
\* undefined, and NaN where a number is read
undefined == 0 - 1

\* The calls of pv.id() in one run
MaxIds == 3

\* The scenes of the layout, and the nodes of the network
Scenes == {1, 2}
NodeIndexes == {0, 1}

\* A datum of the nodes property: an object of the heap (ref) or a primitive.
ObjectDatum(ref) == [isObject |-> TRUE, ref |-> ref]
PrimitiveDatum == [isObject |-> FALSE, ref |-> null]

\* The link objects the links property may be defined with.
LinkData ==
    [source : NodeIndexes, target : NodeIndexes,
     linkValue : {undefined, 2}, value : {undefined, 3},
     sourceNode : {null}, targetNode : {null}]

\* pv.id(): the next identifier (the counter is net.nextId).
pv_id(n) == n.nextId

\* The cast of the nodes property: v.map(function(d, i) {...}) from datum
\* j on; r = [objs, out] is the heap and the array mapped so far.
RECURSIVE castNodes(_, _, _)
castNodes(v, j, r) ==
    IF j > Len(v) THEN r
    ELSE LET fresh == ~v[j].isObject
             d     == IF fresh THEN Len(r.objs) + 1 ELSE v[j].ref
             obj   == [index |-> j - 1, linkDegree |-> 0]
             objs1 == IF fresh THEN Append(r.objs, obj)
                               ELSE [r.objs EXCEPT ![d] = obj]
         IN  castNodes(v, j + 1, [objs |-> objs1, out |-> Append(r.out, d)])

\* The cast of the links property, on the heap of link objects.
castLinks(lnks, v) ==
    [d \in 1..Len(lnks) |->
        IF d \in Range(v) /\ lnks[d].linkValue = undefined
        THEN [lnks[d] EXCEPT !.linkValue =
                 IF lnks[d].value = undefined THEN 1 ELSE lnks[d].value]
        ELSE lnks[d]]

\* pv.Layout.prototype.buildProperties: the properties of the layout are
\* evaluated into the scene s, the defined values going through their casts.
Layout_buildProperties(n, s) ==
    LET r == castNodes(n.nodesDef, 1, [objs |-> n.objs, out |-> << >>])
    IN  [n EXCEPT !.objs = r.objs,
                  !.lnks = castLinks(n.lnks, n.linksDef),
                  !.scenes[s].nodes = r.out,
                  !.scenes[s].links = n.linksDef]

\* pv.Layout.Network.prototype.buildProperties
Network_buildProperties(n, s) ==
    IF (IF n.scenes[s].id = undefined THEN 0 ELSE n.scenes[s].id) < n.id
    THEN Layout_buildProperties(n, s)
    ELSE n

\* s.links.forEach(function(d) {...}) from link j of the scene on
RECURSIVE linkDegrees(_, _, _)
linkDegrees(n, s, j) ==
    IF j > Len(n.scenes[s].links) THEN n
    ELSE LET d  == n.scenes[s].links[j]
             v  == n.lnks[d].linkValue
             sn == IF n.lnks[d].sourceNode # null THEN n.lnks[d].sourceNode
                   ELSE n.scenes[s].nodes[n.lnks[d].source + 1]
             tn == IF n.lnks[d].targetNode # null THEN n.lnks[d].targetNode
                   ELSE n.scenes[s].nodes[n.lnks[d].target + 1]
             o1 == [n.objs EXCEPT ![sn].linkDegree = @ + v]
             o2 == [o1 EXCEPT ![tn].linkDegree = @ + v]
         IN  linkDegrees([n EXCEPT !.objs = o2,
                                   !.lnks[d].sourceNode = sn,
                                   !.lnks[d].targetNode = tn], s, j + 1)

\* pv.Layout.Network.prototype.buildImplied (pv.Layout.prototype.buildImplied
\* fills in defaults that the link degrees do not read).
Network_buildImplied(n, s) ==
    IF n.scenes[s].id >= n.id THEN n
    ELSE linkDegrees([n EXCEPT !.scenes[s].id = n.id], s, 1)

\* pv.Layout.Network.prototype.reset
Network_reset(n) == [n EXCEPT !.id = pv_id(n), !.nextId = @ + 1]

\* new pv.Layout.Network() with its nodes and links defined: the property
\* values are arrays of node data (objects or primitives) and of link
\* objects; no scene is built yet.  The heap holds one object per node
\* index, which is the datum of that index when the datum is an object.
InitNetwork ==
    /\ nodes = << >>
    /\ chains = << >>
    /\ contours = << >>
    /\ levels = << >>
    /\ i = 0
    /\ pc = "network"
    /\ segs = << >>
    /\ lines = << >>
    /\ grid = Grid
    /\ probe = << >>
    /\ \E isObject \in [NodeIndexes -> BOOLEAN], l1 \in LinkData, l2 \in LinkData,
          nl \in {1, 2} :
          net = [id       |-> 1,
                 nextId   |-> 2,
                 objs     |-> [j \in 1..Cardinality(NodeIndexes) |->
                                  [index |-> undefined, linkDegree |-> undefined]],
                 lnks     |-> SubSeq(<<l1, l2>>, 1, nl),
                 nodesDef |-> [j \in 1..Cardinality(NodeIndexes) |->
                                  IF isObject[j - 1] THEN ObjectDatum(j)
                                                     ELSE PrimitiveDatum],
                 linksDef |-> [j \in 1..nl |-> j],
                 scenes   |-> [s \in Scenes |->
                                  [id |-> undefined, nodes |-> << >>, links |-> << >>]],
                 rendered |-> 0]

\* A render of scene s: buildProperties, then buildImplied.
Render(s) ==
    /\ pc = "network"
    /\ net' = [Network_buildImplied(Network_buildProperties(net, s), s)
                  EXCEPT !.rendered = s]
    /\ UNCHANGED <<nodes, chains, contours, levels, i, pc, segs, lines, grid, probe>>

\* layout.reset()
Reset ==
    /\ pc = "network"
    /\ net.nextId <= MaxIds
    /\ net' = [Network_reset(net) EXCEPT !.rendered = 0]
    /\ UNCHANGED <<nodes, chains, contours, levels, i, pc, segs, lines, grid, probe>>

NextNetwork ==
    \/ \E s \in Scenes : Render(s)
    \/ Reset

SpecNetwork == InitNetwork /\ [][NextNetwork]_vars

\* The sum of linkValue over the links of scene s for which the node of
\* index x is the source, plus the same for the target.
RECURSIVE SumFrom(_, _, _, _)
SumFrom(n, s, x, j) ==
    IF j > Len(n.scenes[s].links) THEN 0
    ELSE LET d == n.lnks[n.scenes[s].links[j]]
         IN  (IF d.source = x THEN d.linkValue ELSE 0)
             + (IF d.target = x THEN d.linkValue ELSE 0)
             + SumFrom(n, s, x, j + 1)

DegreesRight(n, s) ==
    \A j \in 1..Len(n.scenes[s].nodes) :
        n.objs[n.scenes[s].nodes[j]].linkDegree = SumFrom(n, s, j - 1, 1)

\* C17 as stated: after every render of a scene, whatever renders and resets
\* came before, each node of the scene has for linkDegree the sum of
\* linkValue over the links for which it is source or target.
C17_DegreesAfterEveryRender ==
    (pc = "network" /\ net.rendered # 0) => DegreesRight(net, net.rendered)

\* With node data that are all objects the degrees are right after every
\* render, of either scene and after any number of resets: the divergence
\* needs a primitive among the node data.
C17_ObjectNodes ==
    (/\ pc = "network"
     /\ net.rendered # 0
     /\ \A j \in 1..Len(net.nodesDef) : net.nodesDef[j].isObject)
    => DegreesRight(net, net.rendered)

(***************************************************************************)
(* The three other outcomes of addSegment: merge, extension, new chain.    *)
(***************************************************************************)
\* The ends ("head", "tail") of chain c that point p coincides with, and
\* whether p coincides with an end of some chain of the list.
EndsAt(st, c, p) ==
    {e \in {"head", "tail"} :
        pointsEqual(p, st.nodes[IF e = "head" THEN st.chains[c].head
                                              ELSE st.chains[c].tail].p)}
MatchesSome(st, p) == \E c \in Range(List(st)) : EndsAt(st, c, p) # {}

\* The points of A and B in one sequence, end ea of A next to end eb of B.
Joined(PA, ea, PB, eb) ==
    (IF ea = "head" THEN Reverse(PA) ELSE PA)
        \o (IF eb = "head" THEN PB ELSE Reverse(PB))

Without(q, x) == LET Other(y) == y # x IN SelectSeq(q, Other)

\* The step merged chains A and B of level index k - 1, a at an end of A and
\* b at an end of B: one of the two records is gone from the list, the other
\* holds the points of both, and count is one less.
Merges(k, A, B, a, b) ==
    \E gone \in {A, B} :
        LET kept == IF gone = A THEN B ELSE A
        IN  /\ List(StoreNext(k)) = Without(List(Store(k)), gone)
            /\ kept \in Range(List(StoreNext(k)))
            /\ contours'[k].count = contours[k].count - 1
            /\ Len(nodes') = Len(nodes)
            /\ Len(Pts(StoreNext(k), kept))
                 = Len(Pts(Store(k), A)) + Len(Pts(Store(k), B))
            /\ \E ea \in EndsAt(Store(k), A, a), eb \in EndsAt(Store(k), B, b) :
                  LET J == Joined(Pts(Store(k), A), ea, Pts(Store(k), B), eb)
                  IN  Pts(StoreNext(k), kept) \in {J, Reverse(J)}

\* C18: a call of addSegment(a, b) with a at an end of chain A and b at an end
\* of a different chain B leaves exactly one of the two records in the list,
\* count one less, and in the surviving chain all the points of A and of B,
\* the end matched by a next to the end matched by b.
C18_Merging ==
    [][AddSegmentStep =>
          \A A \in Range(List(Store(i + 1))), B \in Range(List(Store(i + 1))) :
              (/\ A # B
               /\ EndsAt(Store(i + 1), A, LastA) # {}
               /\ EndsAt(Store(i + 1), B, LastB) # {})
              => Merges(i + 1, A, B, LastA, LastB)]_vars

\* [a, b] and [c, d] joined by (b, d), a tail-tail join: one chain of four
\* points is left.
C18_Witness ==
    /\ Len(segs) = 1
    /\ Len(segs[1]) = 3
    /\ Cardinality(Vertices(segs[1])) = 4
    /\ segs[1][3] = <<segs[1][1][2], segs[1][2][2]>>
    /\ Len(List(Store(1))) = 1
    /\ contours[1].count = 1
    /\ Len(Pts(Store(1), List(Store(1))[1])) = 4

\* The step extended chain X of level index k - 1 by point q, the other
\* endpoint p being at an end of X.
Extends(k, X, p, q) ==
    /\ Pts(StoreNext(k), X)
         = IF "head" \in EndsAt(Store(k), X, p)
           THEN <<q>> \o Pts(Store(k), X)
           ELSE Pts(Store(k), X) \o <<q>>
    /\ List(StoreNext(k)) = List(Store(k))
    /\ contours'[k].count = contours[k].count
    /\ Len(chains') = Len(chains)
    /\ Len(nodes') = Len(nodes) + 1

\* C19: a call of addSegment with exactly one endpoint at an end of some
\* chain grows that chain by one node, holding the other endpoint, before the
\* head if the match is at the head and after the tail otherwise; the list
\* and count are unchanged.  The same whether the matched endpoint is a or b.
C19_Extension ==
    [][AddSegmentStep =>
          \A X \in Range(List(Store(i + 1))) :
              /\ (/\ EndsAt(Store(i + 1), X, LastA) # {}
                  /\ ~MatchesSome(Store(i + 1), LastB))
                 => Extends(i + 1, X, LastA, LastB)
              /\ (/\ EndsAt(Store(i + 1), X, LastB) # {}
                  /\ ~MatchesSome(Store(i + 1), LastA))
                 => Extends(i + 1, X, LastB, LastA)]_vars

\* [a, b] extended by (c, a), b of the call matching the head: [c, a, b].
C19_Witness ==
    /\ Len(segs) = 1
    /\ Len(segs[1]) = 2
    /\ Cardinality(Vertices(segs[1])) = 3
    /\ segs[1][2][2] = segs[1][1][1]
    /\ List(Store(1)) = <<1>>
    /\ Pts(Store(1), 1) = <<segs[1][2][1], segs[1][1][1], segs[1][1][2]>>
    /\ contours[1].count = 1

\* C20: a call of addSegment with neither endpoint at the head or the tail of
\* a chain of the list creates one open chain [a, b], puts it first in the
\* list with the previous list after it, and adds one to count.
C20_NewChain ==
    [][AddSegmentStep =>
          ((~MatchesSome(Store(i + 1), LastA) /\ ~MatchesSome(Store(i + 1), LastB))
           => /\ Len(chains') = Len(chains) + 1
              /\ List(StoreNext(i + 1)) = <<Len(chains')>> \o List(Store(i + 1))
              /\ Pts(StoreNext(i + 1), Len(chains')) = <<LastA, LastB>>
              /\ ~chains'[Len(chains')].closed
              /\ contours'[i + 1].count = contours[i + 1].count + 1
              /\ \A c \in Range(List(Store(i + 1))) :
                    /\ Pts(StoreNext(i + 1), c) = Pts(Store(i + 1), c)
                    /\ chains'[c].closed = chains[c].closed)]_vars

\* A second chain [c, d] created in front of [a, b].
C20_Witness ==
    /\ Len(segs) = 1
    /\ Len(segs[1]) = 2
    /\ Cardinality(Vertices(segs[1])) = 4
    /\ List(Store(1)) = <<2, 1>>
    /\ Pts(Store(1), 2) = <<segs[1][2][1], segs[1][2][2]>>
    /\ ~chains[2].closed
    /\ contours[1].count = 2

(***************************************************************************)
(* The corners the closing loop inserts.                                   *)
(***************************************************************************)
\* The corner where edge e starts on the clockwise walk: the left edge (0) at
\* (minx, miny), the top edge (1) at (minx, maxy), the right edge (2) at
\* (maxx, maxy), the bottom edge (3) at (maxx, miny).
StartCorner(e) ==
    CASE e = 0 -> <<minx, miny>>
      [] e = 1 -> <<minx, maxy>>
      [] e = 2 -> <<maxx, maxy>>
      [] e = 3 -> <<maxx, miny>>

\* The start corners of edges e + 1, ..., e0 (mod 4): (e0 - e) mod 4 of them.
CornersBetween(e, e0) ==
    [j \in 1..((e0 - e + 4) % 4) |-> StartCorner((e + j) % 4)]

\* The closed array of the arrays P1, ..., Pn of ps, in that order: a copy of
\* the last point of Pn, then each array after the corners that lead to it.
RECURSIVE Chained(_, _)
Chained(ps, j) ==
    IF j > Len(ps) THEN << >>
    ELSE LET from == IF j = 1 THEN ps[Len(ps)] ELSE ps[j - 1]
         IN  CornersBetween(EdgeOf(from[Len(from)]), EdgeOf(ps[j][1]))
                 \o ps[j] \o Chained(ps, j + 1)
ClosedOver(ps) == <<ps[Len(ps)][Len(ps[Len(ps)])]>> \o Chained(ps, 1)

\* C21: where the closing loop connects a tail on edge e with the next head
\* on edge e0 it inserts exactly the (e0 - e) mod 4 start corners of edges
\* e + 1, ..., e0 (mod 4), in that order, and the loop ends: the array it
\* leaves is the tail copy, the corners to the first head, the first array,
\* the corners to the second head and the second array.
C21_CornerInsertion ==
    pc = "closed" =>
        /\ Len(probe.closed) = 2
        /\ probe.closed[2].pts
             = ClosedOver(<<probe.sorted[1].pts, probe.sorted[2].pts>>)

\* A tail on the bottom edge connected to a head on the top edge: the two
\* corners (minx, miny) and (minx, maxy), in that order.
C21_Witness ==
    /\ pc = "closed"
    /\ EdgeOf(probe.sorted[1].pts[2]) = 3
    /\ EdgeOf(probe.sorted[2].pts[1]) = 1
    /\ SubSeq(probe.closed[2].pts, Len(probe.closed[2].pts) - 5, Len(probe.closed[2].pts))
         = probe.sorted[1].pts \o <<<<minx, miny>>, <<minx, maxy>>>> \o probe.sorted[2].pts

(***************************************************************************)
(* The stitched polyline of a level.                                       *)
(***************************************************************************)
\* The perimeter code of a point, as the spec gives it: (edge, coordinate)
\* with y on the left edge, x on the top edge, -y on the right edge, -x on
\* the bottom edge, and (0, 0) on no edge.
CodeOf(p) ==
    IF p[1] = minx THEN <<0, p[2]>>
    ELSE IF p[2] = maxy THEN <<1, p[1]>>
    ELSE IF p[1] = maxx THEN <<2, 0 - p[2]>>
    ELSE IF p[2] = miny THEN <<3, 0 - p[1]>>
    ELSE <<0, 0>>

\* The orders of the chains of q in which the codes of the heads ascend.
Ascending(st, q) ==
    {f \in [1..Len(q) -> 1..Len(q)] :
        /\ \A x \in 1..Len(q), y \in 1..Len(q) : x # y => f[x] # f[y]
        /\ \A x \in 1..(Len(q) - 1) :
              ~LexLess(CodeOf(Pts(st, q[f[x + 1]])[1]), CodeOf(Pts(st, q[f[x]])[1]))}

\* C22: the stitched polyline of a level with open chains is, for an order
\* of its open chains in which the codes of the heads ascend, a copy of the
\* last chain's tail point and the closing corners, then every chain once,
\* whole and from head to tail, with only corners between consecutive chains.
C22_StitchedComposition ==
    pc = "done" =>
        \A k \in Stores :
            LET st == Store(k)
                q == OpenChains(st)
            IN  q # << >> =>
                    \E f \in Ascending(st, q) :
                        Stitched(k).pts
                            = ClosedOver([j \in 1..Len(q) |-> Pts(st, q[f[j]])])

\* Two open chains, the second of the list sorted first, with a corner
\* between them.
C22_Witness ==
    /\ pc = "done"
    /\ Len(contours) = 1
    /\ Len(OpenChains(Store(1))) = 2
    /\ LexLess(CodeOf(Pts(Store(1), OpenChains(Store(1))[2])[1]),
               CodeOf(Pts(Store(1), OpenChains(Store(1))[1])[1]))
    /\ Stitched(1).pts
         = ClosedOver(<<Pts(Store(1), OpenChains(Store(1))[2]),
                        Pts(Store(1), OpenChains(Store(1))[1])>>)
    /\ Len(Stitched(1).pts) > 5

(***************************************************************************)
(* The chain list of a store.                                              *)
(***************************************************************************)
\* The list of store st is doubly linked: the first record has no
\* predecessor and every successor points back.
ListLinked(st) ==
    LET L == List(st)
    IN  /\ L # << >> => st.chains[L[1]].prev = null
        /\ \A j \in 1..(Len(L) - 1) :
              /\ st.chains[L[j]].next = L[j + 1]
              /\ st.chains[L[j + 1]].prev = L[j]
        /\ L # << >> => st.chains[L[Len(L)]].next = null

\* C23: after any calls of addSegment, count is the number of records
\* reachable from s through next, and the list is consistently doubly
\* linked: s.prev is null and c.next.prev is c.
C23_CountAndListLinks ==
    \A k \in Stores :
        /\ contours[k].count = Len(List(Store(k)))
        /\ ListLinked(Store(k))

\* Four calls have made three records and merged two of them, the list
\* keeping two.
C23_Witness ==
    /\ Len(segs) = 1
    /\ Len(segs[1]) = 4
    /\ Len(chains) = 3
    /\ Len(List(Store(1))) = 2
    /\ contours[1].count = 2
    /\ chains[List(Store(1))[2]].prev = List(Store(1))[1]

\* The head point and the tail point of chain c.
FreeEnds(st, c) ==
    {st.nodes[st.chains[c].head].p, st.nodes[st.chains[c].tail].p}

\* C24: after any calls of addSegment no point is the head point or the tail
\* point of two distinct chains of the list, so the scan has at most one
\* candidate chain for an endpoint.
C24_EndsNotShared ==
    \A k \in Stores :
        \A c \in Range(List(Store(k))), d \in Range(List(Store(k))) :
            c # d => FreeEnds(Store(k), c) \cap FreeEnds(Store(k), d) = {}

\* Two chains of three points each after four calls.
C24_Witness ==
    /\ Len(segs) = 1
    /\ Len(segs[1]) = 4
    /\ Len(List(Store(1))) = 2
    /\ \A c \in Range(List(Store(1))) : Len(Pts(Store(1), c)) = 3
    /\ Cardinality(Vertices(segs[1])) = 4

(***************************************************************************)
(* When addSegment closes a chain.                                         *)
(***************************************************************************)
\* The step set closed on chain c of level index k - 1.
NewlyClosed(k, c) == ~chains[c].closed /\ chains'[c].closed

\* C25 as stated: addSegment sets closed on a chain only when one endpoint
\* coincides with the chain's head and the other with its tail, and never
\* with a zero-length segment.
C25_ClosedOnlyByHeadAndTail ==
    [][AddSegmentStep =>
          \A c \in Range(List(Store(i + 1))) :
              NewlyClosed(i + 1, c)
                  => /\ EndsMatch(Store(i + 1), c, LastA, LastB)
                     /\ ~pointsEqual(LastA, LastB)]_vars

\* A segment of two distinct points closes a chain only when it joins the
\* chain's head with its tail: the divergence needs a zero-length segment.
C25_DistinctEndpoints ==
    [][AddSegmentStep =>
          \A c \in Range(List(Store(i + 1))) :
              (NewlyClosed(i + 1, c) /\ ~pointsEqual(LastA, LastB))
                  => EndsMatch(Store(i + 1), c, LastA, LastB)]_vars

(***************************************************************************)
(* What addSegment leaves alone.                                           *)
(***************************************************************************)
\* The chains of the list of st with no end at a or at b, in list order.
Unmatched(st, a, b) ==
    LET Free(c) == EndsAt(st, c, a) = {} /\ EndsAt(st, c, b) = {}
    IN  SelectSeq(List(st), Free)

\* The chains of the list of level index k - 1 that the step removed from the
\* list or whose points or closed flag it changed.
Changed(k) ==
    {c \in Range(List(Store(k))) :
        \/ c \notin Range(List(StoreNext(k)))
        \/ Pts(StoreNext(k), c) # Pts(Store(k), c)
        \/ chains'[c].closed # chains[c].closed}

\* C26: a call of addSegment(a, b) changes no chain that has no end at a or
\* b (its points, its closed flag and its place among the other such chains
\* stay), and changes at most two chains.
C26_Frame ==
    [][AddSegmentStep =>
          LET un == Unmatched(Store(i + 1), LastA, LastB)
              StillFree(c) == c \in Range(un)
          IN  /\ Changed(i + 1) \cap Range(un) = {}
              /\ SelectSeq(List(StoreNext(i + 1)), StillFree) = un
              /\ Cardinality(Changed(i + 1)) <= 2]_vars

\* Three zero-length chains, two of them merged by the fourth call and the
\* third left as it was.
C26_Witness ==
    /\ Len(segs) = 1
    /\ Len(segs[1]) = 4
    /\ Len(chains) = 3
    /\ Len(List(Store(1))) = 2
    /\ \E c \in Range(List(Store(1))), d \in Range(List(Store(1))) :
          /\ Len(Pts(Store(1), c)) = 4
          /\ Pts(Store(1), d) = segs[1][d]

(***************************************************************************)
(* The walks end.                                                          *)
(***************************************************************************)
NoRepeat(q) == \A x \in 1..Len(q), y \in 1..Len(q) : x # y => q[x] # q[y]

\* The walk from the head of chain c along next passes no node twice and
\* ends, at the tail, on a null link.
NodesLinear(st, c) ==
    LET ids == nodesFrom(st.nodes, st.chains[c].head, Len(st.nodes) + 1)
    IN  /\ Len(ids) <= Len(st.nodes)
        /\ NoRepeat(ids)
        /\ ids[Len(ids)] = st.chains[c].tail
        /\ st.nodes[st.chains[c].tail].next = null

\* The walk from s along next passes no record twice and ends on a null link.
ListLinear(st) ==
    /\ Len(List(st)) <= Len(st.chains)
    /\ NoRepeat(List(st))

\* C27: after any calls of addSegment the chain list and the node links of
\* every chain, closed ones included, are acyclic, so the endpoint scan,
\* reverseList and the point-collection walk of contourList end.
C27_WalksEnd ==
    \A k \in Stores :
        /\ ListLinear(Store(k))
        /\ \A c \in Range(List(Store(k))) : NodesLinear(Store(k), c)

\* A closed chain that was merged with an open one: five nodes in a line.
C27_Witness ==
    /\ Len(segs) = 1
    /\ Len(segs[1]) = 4
    /\ Len(List(Store(1))) = 1
    /\ Len(chains) = 2
    /\ \E c \in 1..2 : chains[c].closed
    /\ Len(Pts(Store(1), List(Store(1))[1])) = 5
    /\ NodesLinear(Store(1), List(Store(1))[1])

====
